---- MODULE Spec2Model ----
(***************************************************************************)
(* A model of fuzzy.py: MembershipFunction, FuzzySet, FuzzyRule,           *)
(* FuzzyInferenceSystem and the triangular / trapezoidal constructors.     *)
(*                                                                         *)
(* Numbers are exact rationals <<n, d>> in lowest terms with d > 0.  A     *)
(* raised ZeroDivisionError is the value Raised == <<0, 0>>, which every   *)
(* arithmetic operator propagates.                                         *)
(***************************************************************************)
EXTENDS Integers, Sequences, FiniteSets, TLC

VARIABLES
    \* FuzzyInferenceSystem
    universe,       \* self.universe
    output_range,   \* self.output_range
    rules,          \* self.rules
    inputs,         \* the record passed to the last infer call
    aggregated,     \* the mapping returned by the last infer call
    crisp,          \* the number returned by the last defuzzify call
    last,           \* the last call made
    added,          \* history: the arguments of the add_rule calls, in call order
    inferred_at,    \* history: Len(rules) at the last infer call, -1 before any
    \* evaluation of one triangular / trapezoidal membership function
    params,         \* <<a, b, c, d>>
    arg,            \* x
    shape,          \* "none" | "tri" | "trap"
    value,          \* what the call returned
    \* fuzzy sets built so far
    sets,           \* the FuzzySet objects, in construction order
    op              \* how the newest one was built

vars == <<universe, output_range, rules, inputs, aggregated, crisp, last,
          added, inferred_at, params, arg, shape, value, sets, op>>

fisVars == <<universe, output_range, rules, inputs, aggregated, crisp, last,
             added, inferred_at>>
mfVars  == <<params, arg, shape, value>>
setVars == <<sets, op>>

----------------------------------------------------------------------------
(* Bounds *)

MinParam == 0 - 1
MaxParam == 3
MaxRules == 3
MaxSets == 3
MaxInput == 2

----------------------------------------------------------------------------
(* Rational arithmetic *)

Abs(n) == IF n < 0 THEN 0 - n ELSE n

RECURSIVE GCD(_, _)
GCD(m, n) == IF n = 0 THEN m ELSE GCD(n, m % n)

Raised == <<0, 0>>
Zero == <<0, 1>>
One == <<1, 1>>

IsRaised(r) == r[2] = 0

\* n / d in lowest terms; a zero divisor raises.
RDiv(n, d) ==
    IF d = 0 THEN Raised
    ELSE LET g == GCD(Abs(n), Abs(d))
             s == IF d < 0 THEN 0 - 1 ELSE 1
         IN  <<(s * n) \div g, (s * d) \div g>>

FromInt(n) == <<n, 1>>

RLt(r, s) == r[1] * s[2] < s[1] * r[2]
RLe(r, s) == r[1] * s[2] <= s[1] * r[2]

RAdd(r, s) ==
    IF IsRaised(r) \/ IsRaised(s) THEN Raised
    ELSE RDiv(r[1] * s[2] + s[1] * r[2], r[2] * s[2])

RSub(r, s) ==
    IF IsRaised(r) \/ IsRaised(s) THEN Raised
    ELSE RDiv(r[1] * s[2] - s[1] * r[2], r[2] * s[2])

RMul(r, s) ==
    IF IsRaised(r) \/ IsRaised(s) THEN Raised
    ELSE RDiv(r[1] * s[1], r[2] * s[2])

\* r / s, raising on s = 0
RQuot(r, s) ==
    IF IsRaised(r) \/ IsRaised(s) THEN Raised
    ELSE RDiv(r[1] * s[2], r[2] * s[1])

\* Python's max(r, s) and min(r, s): the first argument wins a tie.
RMax(r, s) ==
    IF IsRaised(r) \/ IsRaised(s) THEN Raised
    ELSE IF RLt(r, s) THEN s ELSE r

RMin(r, s) ==
    IF IsRaised(r) \/ IsRaised(s) THEN Raised
    ELSE IF RLt(s, r) THEN s ELSE r

InUnit(r) == ~IsRaised(r) /\ RLe(Zero, r) /\ RLe(r, One)

----------------------------------------------------------------------------
(* Membership functions *)

\* the closure mu of triangular(a, b, c)
tri_mu_strict(a, b, c, x) ==
    IF x < a \/ x > c THEN Zero
    ELSE IF x < b THEN RDiv(x - a, b - a) ELSE RDiv(c - x, c - b)

tri_mu(a, b, c, x) ==
    IF x <= a \/ x >= c THEN Zero
    ELSE IF x < b THEN RDiv(x - a, b - a) ELSE RDiv(c - x, c - b)

\* the closure mu of trapezoidal(a, b, c, d)
trap_mu(a, b, c, d, x) ==
    IF x <= a \/ x >= d THEN Zero
    ELSE IF a < x /\ x < b THEN RDiv(x - a, b - a)
    ELSE IF b <= x /\ x <= c THEN One
    ELSE RDiv(d - x, d - c)

\* A MembershipFunction object: which function it wraps.
triangular(a, b, c) == [kind |-> "tri", p |-> <<a, b, c>>, of |-> <<>>]
trapezoidal(a, b, c, d) == [kind |-> "trap", p |-> <<a, b, c, d>>, of |-> <<>>]
\* a caller-supplied function x |-> (k * x + m) / q
linear(k, m, q) == [kind |-> "lin", p |-> <<k, m, q>>, of |-> <<>>]

RECURSIVE Func(_, _), Call(_, _)

\* self.func(x)
Func(mf, x) ==
    CASE mf.kind = "tri" -> tri_mu(mf.p[1], mf.p[2], mf.p[3], x)
      [] mf.kind = "trap" -> trap_mu(mf.p[1], mf.p[2], mf.p[3], mf.p[4], x)
      [] mf.kind = "lin" -> RDiv(mf.p[1] * x + mf.p[2], mf.p[3])
      [] mf.kind = "not" -> RSub(One, Call(mf.of[1], x))
      [] mf.kind = "and" -> RMin(Call(mf.of[1], x), Call(mf.of[2], x))
      [] mf.kind = "or" -> RMax(Call(mf.of[1], x), Call(mf.of[2], x))

CallNoClamp(mf, x) == Func(mf, x)

\* MembershipFunction.__call__
Call(mf, x) == RMax(Zero, RMin(One, Func(mf, x)))

----------------------------------------------------------------------------
(* Evaluating one triangular or trapezoidal membership function *)

Params == MinParam .. MaxParam

InitMF ==
    /\ params \in Params \X Params \X Params \X Params
    /\ arg \in Params
    /\ shape = "none"
    /\ value = Zero
    /\ universe = <<>> /\ output_range = <<>> /\ rules = <<>>
    /\ inputs = [speed |-> 0] /\ aggregated = <<>> /\ crisp = Zero
    /\ last = "init" /\ added = <<>> /\ inferred_at = 0 - 1
    /\ sets = <<>> /\ op = [name |-> "none", a |-> 0, b |-> 0]

EvalTriangular ==
    /\ shape = "none"
    /\ shape' = "tri"
    /\ value' = Call(triangular(params[1], params[2], params[3]), arg)
    /\ UNCHANGED <<params, arg, fisVars, setVars>>

EvalTrapezoidal ==
    /\ shape = "none"
    /\ shape' = "trap"
    /\ value' = Call(trapezoidal(params[1], params[2], params[3], params[4]), arg)
    /\ UNCHANGED <<params, arg, fisVars, setVars>>

NextMF == EvalTriangular \/ EvalTrapezoidal

SpecMF == InitMF /\ [][NextMF]_vars

----------------------------------------------------------------------------
(* Fuzzy sets *)

Range(seq) == {seq[i] : i \in DOMAIN seq}

\* FuzzySet.__init__
FuzzySet(mu, u) ==
    [mu |-> mu, universe |-> u, members |-> [x \in Range(u) |-> Call(mu, x)]]

\* FuzzySet.complement
complement(S) ==
    FuzzySet([kind |-> "not", p |-> <<>>, of |-> <<S.mu>>], S.universe)

\* FuzzySet.intersection
intersection(A, B) ==
    FuzzySet([kind |-> "and", p |-> <<>>, of |-> <<A.mu, B.mu>>], A.universe)

union_second_universe(A, B) ==
    FuzzySet([kind |-> "or", p |-> <<>>, of |-> <<A.mu, B.mu>>], B.universe)

\* FuzzySet.union
union(A, B) ==
    FuzzySet([kind |-> "or", p |-> <<>>, of |-> <<A.mu, B.mu>>], A.universe)

\* the membership functions and universes the sets are built from
BaseMFs ==
    { triangular(0, 1, 3), trapezoidal(0, 0, 1, 3), linear(1, 0 - 1, 2) }

SetUniverses == { <<0, 1, 2, 3>>, <<1, 1, 4>> }

NoOp == [name |-> "none", a |-> 0, b |-> 0]

InitSet ==
    /\ sets = <<>>
    /\ op = NoOp
    /\ params = <<0, 0, 0, 0>> /\ arg = 0 /\ shape = "none" /\ value = Zero
    /\ universe = <<>> /\ output_range = <<>> /\ rules = <<>>
    /\ inputs = [speed |-> 0] /\ aggregated = <<>> /\ crisp = Zero
    /\ last = "init" /\ added = <<>> /\ inferred_at = 0 - 1

NewSet ==
    /\ Len(sets) < MaxSets
    /\ \E mu \in BaseMFs, u \in SetUniverses :
          /\ sets' = Append(sets, FuzzySet(mu, u))
          /\ op' = [name |-> "new", a |-> 0, b |-> 0]
    /\ UNCHANGED <<fisVars, mfVars>>

Complement ==
    /\ Len(sets) < MaxSets
    /\ \E i \in DOMAIN sets :
          /\ sets' = Append(sets, complement(sets[i]))
          /\ op' = [name |-> "complement", a |-> i, b |-> 0]
    /\ UNCHANGED <<fisVars, mfVars>>

Intersection ==
    /\ Len(sets) < MaxSets
    /\ \E i \in DOMAIN sets, j \in DOMAIN sets :
          /\ sets' = Append(sets, intersection(sets[i], sets[j]))
          /\ op' = [name |-> "intersection", a |-> i, b |-> j]
    /\ UNCHANGED <<fisVars, mfVars>>

Union ==
    /\ Len(sets) < MaxSets
    /\ \E i \in DOMAIN sets, j \in DOMAIN sets :
          /\ sets' = Append(sets, union(sets[i], sets[j]))
          /\ op' = [name |-> "union", a |-> i, b |-> j]
    /\ UNCHANGED <<fisVars, mfVars>>

NextSet == NewSet \/ Complement \/ Intersection \/ Union

SpecSet == InitSet /\ [][NextSet]_vars

----------------------------------------------------------------------------
(* Rules and the inference system *)

\* FuzzyRule.__init__
FuzzyRule(antecedent, consequent) ==
    [antecedent |-> antecedent, consequent |-> consequent]

\* An antecedent closure: a constant, or lambda inp: S.mu(inp['speed']).
Always(v) == [kind |-> "const", v |-> v, mu |-> triangular(0, 0, 0)]
SpeedIs(S) == [kind |-> "mu", v |-> Zero, mu |-> S.mu]

\* rule.antecedent(inputs)
Antecedent(rule, inp) ==
    IF rule.antecedent.kind = "const" THEN rule.antecedent.v
    ELSE Call(rule.antecedent.mu, inp.speed)

add_rule_dedup(rs, rule) ==
    IF \E i \in DOMAIN rs : rs[i] = rule THEN rs ELSE Append(rs, rule)

\* FuzzyInferenceSystem.add_rule
add_rule(rs, rule) == Append(rs, rule)

Clip_overwrite(current, degree, m) == RMin(degree, m)

Clip_product(current, degree, m) == RMax(current, RMul(degree, m))

Clip_unclipped(current, degree, m) == RMax(current, m)

\* the new aggregated[y]: max(aggregated[y], min(degree, rule.consequent.mu(y)))
Clip(current, degree, m) == RMax(current, RMin(degree, m))

\* the inner loop of infer, from the i-th output point on
RECURSIVE InferPoints(_, _, _, _, _)
InferPoints(agg, degree, rule, out, i) ==
    IF i > Len(out) THEN agg
    ELSE LET y == out[i]
             v == Clip(agg[y], degree, Call(rule.consequent.mu, y))
         IN  InferPoints([agg EXCEPT ![y] = v], degree, rule, out, i + 1)

\* the outer loop of infer, from the j-th rule on
RECURSIVE InferRules(_, _, _, _, _)
InferRules(agg, rs, out, inp, j) ==
    IF j > Len(rs) THEN agg
    ELSE InferRules(InferPoints(agg, Antecedent(rs[j], inp), rs[j], out, 1),
                    rs, out, inp, j + 1)

\* FuzzyInferenceSystem.infer
infer(rs, out, inp) ==
    InferRules([y \in Range(out) |-> Zero], rs, out, inp, 1)

RECURSIVE SumOver(_, _, _)
\* sum(term(y, f[y]) for y in keys), term chosen by weighted
SumOver(f, keys, weighted) ==
    IF keys = {} THEN Zero
    ELSE LET y == CHOOSE k \in keys : TRUE
             t == IF weighted THEN RMul(FromInt(y), f[y]) ELSE f[y]
         IN  RAdd(t, SumOver(f, keys \ {y}, weighted))

defuzzify_unguarded(agg) ==
    RQuot(SumOver(agg, DOMAIN agg, TRUE), SumOver(agg, DOMAIN agg, FALSE))

\* FuzzyInferenceSystem.defuzzify
defuzzify(agg) ==
    LET num == SumOver(agg, DOMAIN agg, TRUE)
        den == SumOver(agg, DOMAIN agg, FALSE)
    IN  IF den # Zero THEN RQuot(num, den) ELSE Zero

----------------------------------------------------------------------------
(* One inference system: add_rule, infer and defuzzify calls in any order *)

InputUniverse == [i \in 1 .. MaxInput + 1 |-> i - 1]
ConsequentUniverse == <<0, 1, 2, 3>>

\* slow = FuzzySet(triangular(0, 0, 50), x_universe), scaled to the input range
Slow == FuzzySet(triangular(0, 0, 3), InputUniverse)

\* the rules callers add: the demo's rule, and constant antecedents inside and
\* outside [0,1]
RulePool ==
    { FuzzyRule(SpeedIs(Slow), FuzzySet(triangular(0, 0, 3), ConsequentUniverse)),
      FuzzyRule(Always(One), FuzzySet(triangular(0, 2, 4), ConsequentUniverse)),
      FuzzyRule(Always(<<2, 1>>), FuzzySet(trapezoidal(0 - 2, 0, 1, 3), ConsequentUniverse)),
      FuzzyRule(Always(<<0 - 1, 1>>), FuzzySet(triangular(0, 1, 2), ConsequentUniverse)) }

OutputRanges == { <<>>, <<0, 1, 2, 3>>, <<0 - 1, 1, 1, 2>> }

Init ==
    /\ universe = InputUniverse
    /\ output_range \in OutputRanges
    /\ rules = <<>>
    /\ inputs = [speed |-> 0]
    /\ aggregated = <<>>
    /\ crisp = Zero
    /\ last = "init"
    /\ added = <<>>
    /\ inferred_at = 0 - 1
    /\ params = <<0, 0, 0, 0>> /\ arg = 0 /\ shape = "none" /\ value = Zero
    /\ sets = <<>> /\ op = NoOp

AddRule ==
    /\ Len(rules) < MaxRules
    /\ \E rule \in RulePool :
          /\ rules' = add_rule(rules, rule)
          /\ added' = Append(added, rule)
    /\ last' = "add_rule"
    /\ UNCHANGED <<universe, output_range, inputs, aggregated, crisp,
                   inferred_at, mfVars, setVars>>

Infer ==
    /\ \E v \in 0 .. MaxInput :
          /\ inputs' = [speed |-> v]
          /\ aggregated' = infer(rules, output_range, inputs')
    /\ inferred_at' = Len(rules)
    /\ last' = "infer"
    /\ UNCHANGED <<universe, output_range, rules, crisp, added, mfVars, setVars>>

Defuzzify ==
    /\ inferred_at >= 0
    /\ crisp' = defuzzify(aggregated)
    /\ last' = "defuzzify"
    /\ UNCHANGED <<universe, output_range, rules, inputs, aggregated, added,
                   inferred_at, mfVars, setVars>>

Next == AddRule \/ Infer \/ Defuzzify

Spec == Init /\ [][Next]_vars

----------------------------------------------------------------------------
(* Properties of triangular and trapezoidal, under SpecMF *)

a == params[1]
b == params[2]
c == params[3]
d == params[4]

\* C3: for triangular(a, b, c) with a <= b <= c and a < c, shoulder shapes
\* a = b and b = c included, f(a) = 0, f(b) = 1, f(c) = 0 and f(x) = 0 for every
\* x <= a and every x >= c.
C3_TriangularPeak ==
    (shape = "tri" /\ a <= b /\ b <= c /\ a < c) =>
        /\ (arg = a => value = Zero)
        /\ (arg = b => value = One)
        /\ (arg = c => value = Zero)
        /\ (arg <= a \/ arg >= c => value = Zero)

\* C4: for trapezoidal(a, b, c, d) with a <= b <= c <= d and a < d, shoulder
\* shapes a = b and c = d included, f(a) = 0, f(d) = 0 and f(x) = 1 for every x
\* in the closed plateau [b, c].
C4_TrapezoidalPlateau ==
    (shape = "trap" /\ a <= b /\ b <= c /\ c <= d /\ a < d) =>
        /\ (arg = a => value = Zero)
        /\ (arg = d => value = Zero)
        /\ (b <= arg /\ arg <= c => value = One)

\* C9: evaluating triangular or trapezoidal never raises, whatever the order of
\* the parameters and whatever x, and the value returned is in [0,1].
C9_NeverRaises == shape # "none" => InUnit(value)

\* a shoulder with b = c evaluated on its rising edge, where the falling
\* branch's divisor c - b is zero
C9_Witness ==
    /\ shape = "tri" /\ b = c /\ a < arg /\ arg < b
    /\ value # Zero /\ value # One

----------------------------------------------------------------------------
(* Properties of fuzzy sets, under SpecSet *)

TestPoints == (MinParam - 1) .. (MaxParam + 1)

Clamped(raw) ==
    IF RLt(raw, Zero) THEN Zero ELSE IF RLt(One, raw) THEN One ELSE raw

\* C5: a MembershipFunction returns its function's raw value clamped into
\* [0,1]; every FuzzySet, built directly or by complement, union or
\* intersection, has a table whose keys are exactly its universe points and
\* whose values are in [0,1].
C5_Clamped ==
    \A k \in DOMAIN sets :
        /\ \A x \in TestPoints :
              Call(sets[k].mu, x) = Clamped(Func(sets[k].mu, x))
        /\ DOMAIN sets[k].members = Range(sets[k].universe)
        /\ \A x \in DOMAIN sets[k].members : InUnit(sets[k].members[x])

\* a set whose function is out of range, above and below, at universe points,
\* and a complement built from it
C5_Witness ==
    \E k \in DOMAIN sets, j \in DOMAIN sets :
        /\ sets[k].mu.kind = "lin"
        /\ \E x \in Range(sets[k].universe) : RLt(One, Func(sets[k].mu, x))
        /\ sets[j].mu.kind = "not" /\ sets[j].mu.of[1] = sets[k].mu
        /\ \E x \in Range(sets[j].universe) : RLt(Func(sets[k].mu, x), Zero)

Newest == sets[Len(sets)]

\* C6: A.complement() has membership 1 - A(x) and A's universe; union(A, B) has
\* membership max(A(x), B(x)) and intersection(A, B) min(A(x), B(x)), both over
\* A's universe; union and intersection are commutative in their membership.
C6_SetAlgebra ==
    /\ op.name = "complement" =>
          /\ Newest.universe = sets[op.a].universe
          /\ \A x \in TestPoints :
                Call(Newest.mu, x) = RSub(One, Call(sets[op.a].mu, x))
    /\ op.name = "union" =>
          /\ Newest.universe = sets[op.a].universe
          /\ \A x \in TestPoints :
                /\ Call(Newest.mu, x) =
                       RMax(Call(sets[op.a].mu, x), Call(sets[op.b].mu, x))
                /\ Call(Newest.mu, x) = Call(union(sets[op.b], sets[op.a]).mu, x)
    /\ op.name = "intersection" =>
          /\ Newest.universe = sets[op.a].universe
          /\ \A x \in TestPoints :
                /\ Call(Newest.mu, x) =
                       RMin(Call(sets[op.a].mu, x), Call(sets[op.b].mu, x))
                /\ Call(Newest.mu, x) =
                       Call(intersection(sets[op.b], sets[op.a]).mu, x)

\* a union of two sets over different universes whose memberships cross
C6_Witness ==
    /\ op.name = "union"
    /\ sets[op.a].universe # sets[op.b].universe
    /\ \E x \in TestPoints : RLt(Call(sets[op.a].mu, x), Call(sets[op.b].mu, x))
    /\ \E x \in TestPoints : RLt(Call(sets[op.b].mu, x), Call(sets[op.a].mu, x))

----------------------------------------------------------------------------
(* Properties of the inference system, under Spec *)

Degree(i) == Antecedent(rules[i], inputs)

\* min(rule.antecedent(inputs), rule.consequent membership at y), rule by rule
Clipped(y) ==
    {RMin(Degree(i), Call(rules[i].consequent.mu, y)) : i \in DOMAIN rules}

IsMaxOf(v, S) == IF S = {} THEN v = Zero ELSE v \in S /\ \A w \in S : RLe(w, v)

\* C1: infer returns a mapping whose keys are exactly the output points and whose
\* value at y is the maximum over the rules added so far of
\* min(antecedent(inputs), consequent membership at y), given antecedents in
\* [0,1]; 0 at every y with no rules; the consequent's membership at every y
\* with a single rule whose antecedent is always 1.
C1_InferIsMaxMin ==
    last = "infer" =>
        /\ DOMAIN aggregated = Range(output_range)
        /\ (\A i \in DOMAIN rules : InUnit(Degree(i))) =>
              \A y \in Range(output_range) : IsMaxOf(aggregated[y], Clipped(y))
        /\ rules = <<>> => \A y \in Range(output_range) : aggregated[y] = Zero
        /\ (Len(rules) = 1 /\ rules[1].antecedent = Always(One)) =>
              \A y \in Range(output_range) :
                  aggregated[y] = Call(rules[1].consequent.mu, y)

\* two different rules with degrees in [0,1], each deciding some output point
C1_Witness ==
    /\ last = "infer" /\ Len(rules) = 2
    /\ \A i \in DOMAIN rules : InUnit(Degree(i))
    /\ \E y \in Range(output_range) :
          RLt(RMin(Degree(1), Call(rules[1].consequent.mu, y)), aggregated[y])
    /\ \E y \in Range(output_range) :
          RLt(RMin(Degree(2), Call(rules[2].consequent.mu, y)), aggregated[y])

Centroid_num == SumOver(aggregated, DOMAIN aggregated, TRUE)
Centroid_den == SumOver(aggregated, DOMAIN aggregated, FALSE)

\* C2: defuzzify returns the centroid sum(y * mu(y)) / sum(mu(y)) when the
\* denominator is not 0 and 0 without failing when it is 0; with zero rules
\* defuzzify(infer(inputs)) is 0.
C2_Defuzzify ==
    last = "defuzzify" =>
        /\ ~IsRaised(crisp)
        /\ Centroid_den # Zero => RMul(crisp, Centroid_den) = Centroid_num
        /\ Centroid_den = Zero => crisp = Zero
        /\ rules = <<>> => crisp = Zero

\* rules are present and the output universe is not empty, yet nothing fired
C2_Witness ==
    /\ last = "defuzzify" /\ rules # <<>> /\ output_range # <<>>
    /\ inferred_at = Len(rules)
    /\ Centroid_den = Zero

Perms(n) ==
    {f \in [1 .. n -> 1 .. n] : \A i, j \in 1 .. n : i # j => f[i] # f[j]}

\* C7: infer does not depend on the order in which the rules were added, and
\* adding a rule a second time changes nothing; so neither does defuzzify.
C7_OrderIrrelevant ==
    last = "infer" =>
        /\ \A f \in Perms(Len(rules)) :
              LET rs == [i \in 1 .. Len(rules) |-> rules[f[i]]]
                  permuted == infer(rs, output_range, inputs)
              IN  /\ permuted = aggregated
                  /\ defuzzify(permuted) = defuzzify(aggregated)
        /\ \A i \in DOMAIN rules :
              infer(Append(rules, rules[i]), output_range, inputs) = aggregated

\* two rules that clip differently, so that overwriting would show the order
C7_Witness ==
    /\ last = "infer" /\ Len(rules) >= 2
    /\ infer(<<rules[1]>>, output_range, inputs) #
           infer(<<rules[2]>>, output_range, inputs)
    /\ \E y \in Range(output_range) : aggregated[y] # Zero

\* C8: infer and defuzzify leave the rule sequence and the universes unchanged,
\* and infer repeated with the same inputs returns the same mapping;
\* add_rule(r) changes only the rule sequence, which becomes the previous one
\* with r appended, one longer even when r is already present; the rule
\* sequence is the add_rule arguments so far, in call order.
C8_Frame ==
    [][ /\ last' \in {"infer", "defuzzify"} =>
              /\ rules' = rules
              /\ output_range' = output_range
              /\ universe' = universe
        /\ (last' = "infer" /\ inferred_at = Len(rules) /\ inputs' = inputs) =>
              aggregated' = aggregated
        /\ last' = "add_rule" =>
              /\ rules' = Append(rules, added'[Len(added')])
              /\ Len(rules') = Len(rules) + 1
              /\ output_range' = output_range
              /\ universe' = universe
              /\ aggregated' = aggregated /\ crisp' = crisp
        /\ rules' = added'
      ]_vars

\* a rule was added a second time, after an infer and a defuzzify
C8_Witness ==
    /\ last = "add_rule" /\ inferred_at >= 0
    /\ \E i \in DOMAIN rules : i < Len(rules) /\ rules[i] = rules[Len(rules)]

\* C10: every value of the mapping infer returns is in [0,1], whatever the
\* antecedents return, below 0 and above 1 included.
C10_AggregatedInUnit ==
    last = "infer" => \A y \in DOMAIN aggregated : InUnit(aggregated[y])

\* an antecedent above 1 and one below 0 fired on a non-zero consequent
C10_Witness ==
    /\ last = "infer"
    /\ \E i \in DOMAIN rules : RLt(One, Degree(i))
    /\ \E i \in DOMAIN rules :
          /\ RLt(Degree(i), Zero)
          /\ \E y \in Range(output_range) :
                Call(rules[i].consequent.mu, y) # Zero
    /\ \E y \in Range(output_range) : aggregated[y] = One

====
